---- MODULE Spec2Model ----
(***************************************************************************)
(* The download engine of slo1/torrent (src/src/download.rs): one          *)
(* coordinator thread (download_from), one worker thread per peer          *)
(* (Worker::new), the two mpsc channel directions between them, and the     *)
(* remote peers as the environment of each worker's TCP stream.  The piece  *)
(* table download_from starts from is the one run (src/src/main.rs) builds  *)
(* for a single-file or a multi-file descriptor.                            *)
(***************************************************************************)
EXTENDS Integers, Sequences, FiniteSets, TLC

\* ------------------------------------------------------------------ bounds

\* Number of peers handed to download_from (the tracker's peer list).
NumPeers == 2
\* Number of pieces of the table handed to download_from.
NumPieces == 2
\* Faults of the environment in one run: a connection that fails, a peer
\* that sends corrupt bytes, a malformed piece message, a second bitfield or
\* an unchoke while a request is outstanding.
MaxFaults == 1
\* Runs of bytes a worker's piece buffer may hold: the buffer is not emptied
\* when a verification fails, so it grows with every failed attempt.
MaxRuns == 3

\* The longest buffer of the exhaustive part of Inputs.
MaxInputLen == 4
\* The most pieces of the tables of the runs of a single peer.
MaxTablePieces == 5
\* The longest file, in units of RemainderLen.
MaxFileUnits == 7
RefillPieces == 3

\* ------------------------------------------------------- program constants

\* Every length and offset of the model is in KiB (1024 bytes): the lengths
\* of the torrents modelled are whole KiB.

\* cmp::min(length_left as u32, 2 << 14) in request_block: 32768 bytes.
ReqCap == 32
\* if size > (2 << 30) in download_from: 2 GiB.
FlushThreshold == 2097152
\* The torrent's piece length (metainfo.info.piece_length) of the runs modelled.
NominalLen == 48
\* The length of the final, shorter piece (total_length % piece_length).
RemainderLen == 16

Peers == 1..NumPeers

\* ----------------------------------------------------------------- helpers

Last(s) == s[Len(s)]

Front(s) == SubSeq(s, 1, Len(s) - 1)

RECURSIVE SumLen(_)
\* Vec::len of a byte buffer kept as a sequence of runs.
SumLen(buf) == IF buf = <<>> THEN 0 ELSE Head(buf).len + SumLen(Tail(buf))

\* Vec::extend on the piece buffer.  A byte vector does not remember how it
\* was filled, so two adjacent runs of true piece bytes that continue each
\* other are one run.  A run is [piece, begin, len, ok]: len bytes that are
\* (ok) or are not the bytes of the piece at offset begin.
Extend(buf, blk) ==
    IF buf /= <<>> /\ Last(buf).ok /\ blk.ok /\ Last(buf).piece = blk.piece
       /\ Last(buf).begin + Last(buf).len = blk.begin
    THEN Append(Front(buf), [Last(buf) EXCEPT !.len = @ + blk.len])
    ELSE Append(buf, blk)

\* The bytes of piece index, of the given length, as the torrent defines them.
Content(index, length) ==
    <<[piece |-> index, begin |-> 0, len |-> length, ok |-> TRUE]>>

\* sha1::Sha1::from(..).digest().bytes(): a black box taken to be collision
\* free, so a digest stands for the bytes it was computed from.
Sha1(buf) == [digest_of |-> buf]

Min(a, b) == IF a <= b THEN a ELSE b

RECURSIVE Sum(_)
Sum(lengths) == IF lengths = <<>> THEN 0 ELSE Head(lengths) + Sum(Tail(lengths))

\* The number of pieces of a torrent of the given length (the number of
\* digests of metainfo.info.pieces).
NumDigests(total) == (total + NominalLen - 1) \div NominalLen

\* The length of piece index of a torrent of the given length.
TrueLen(index, total) == Min(NominalLen, total - index * NominalLen)

\* metainfo.info.pieces[index]: the digest of the piece's bytes.
Digest(index, total) == Sha1(Content(index, TrueLen(index, total)))

\* Piece::new(index, length, hash)
NewPiece(index, length, hash) ==
    [index |-> index, peers |-> <<>>, job_state |-> "Available",
     length |-> length, hash |-> hash]

\* The pieces run pushes for one `let mut index = 0` loop over a length:
\* length / piece_length pieces of piece_length bytes with indices from 0,
\* then one of the remainder if it is not 0.
FilePieces(length, total) ==
    LET full == length \div NominalLen
        remainder == length % NominalLen
    IN  [k \in 1..full |-> NewPiece(k - 1, NominalLen, Digest(k - 1, total))]
        \o (IF remainder /= 0
            THEN <<NewPiece(full, remainder, Digest(full, total))>>
            ELSE <<>>)

RECURSIVE FilesPieces(_, _)
\* for file in files { let mut index = 0; ... }
FilesPieces(files, total) ==
    IF files = <<>> THEN <<>>
    ELSE FilePieces(Head(files), total) \o FilesPieces(Tail(files), total)

\* A descriptor is [length |-> n] (single-file mode) or [files |-> lengths].
IsSingleFile(desc) == "length" \in DOMAIN desc

TotalLength(desc) ==
    IF IsSingleFile(desc) THEN desc.length ELSE Sum(desc.files)

\* The piece table run builds for a descriptor.
PieceTable(desc) ==
    IF IsSingleFile(desc) THEN FilePieces(desc.length, desc.length)
    ELSE FilesPieces(desc.files, Sum(desc.files))

\* The descriptors of the runs modelled, of n pieces each: one file with a
\* shorter last piece, and n files of one piece each.
Descriptors(n) ==
    {[length |-> (n - 1) * NominalLen + RemainderLen],
     [files |-> [k \in 1..n |-> NominalLen]]}

\* (0b1000_0000 >> j) & byte != 0
BitSet(byte, j) == (byte \div (2 ^ (7 - j))) % 2 = 1

RECURSIVE ByteOf(_)
\* The byte a peer sends for the set S of piece numbers 0..7 it has.
ByteOf(S) ==
    IF S = {} THEN 0
    ELSE LET j == CHOOSE x \in S : TRUE IN 2 ^ (7 - j) + ByteOf(S \ {j})

\* ----------------------------------------------------------------- bencode

\* A byte buffer is a sequence of bytes, each written as the character it is
\* in ASCII.  A decoder result is [tag |-> "ok", val |-> v], [tag |-> "err",
\* msg |-> m] (the Err of the Result) or [tag |-> "panic"] (the thread
\* panics).  A value v is a record of its kind, index and size and of int,
\* byte_str, list or dict.

\* u8::is_ascii_digit
is_ascii_digit(c) == c \in {"0", "1", "2", "3", "4", "5", "6", "7", "8", "9"}

DigitVal(c) ==
    CASE c = "0" -> 0 [] c = "1" -> 1 [] c = "2" -> 2 [] c = "3" -> 3
      [] c = "4" -> 4 [] c = "5" -> 5 [] c = "6" -> 6 [] c = "7" -> 7
      [] c = "8" -> 8 [] c = "9" -> 9

RECURSIVE Decimal(_)
\* The number a string of digits denotes.
Decimal(text) ==
    IF text = <<>> THEN 0
    ELSE 10 * Decimal(Front(text)) + DigitVal(Last(text))

AllDigits(text) == \A n \in 1..Len(text) : is_ascii_digit(text[n])

\* str::parse::<i64>: an optional sign '+' or '-' and at least one digit.
\* (A number beyond i64 is an Err too; no buffer of the model is that long.)
ParsesI64(text) ==
    /\ text /= <<>>
    /\ IF text[1] \in {"+", "-"}
       THEN Len(text) >= 2 /\ AllDigits(Tail(text))
       ELSE AllDigits(text)

ParseI64(text) ==
    IF text[1] = "-" THEN 0 - Decimal(Tail(text))
    ELSE IF text[1] = "+" THEN Decimal(Tail(text))
    ELSE Decimal(text)

\* str::parse::<usize>: an optional '+' and at least one digit.
ParsesUsize(text) ==
    /\ text /= <<>>
    /\ IF text[1] = "+"
       THEN Len(text) >= 2 /\ AllDigits(Tail(text))
       ELSE AllDigits(text)

Ok(v) == [tag |-> "ok", val |-> v]

Err(m) == [tag |-> "err", msg |-> m]

Panic == [tag |-> "panic"]

\* bytes[from..] of Rust, from counted from 0.
Suffix(bytes, from) == SubSeq(bytes, from + 1, Len(bytes))

\* iter().position(|&x| !x.is_ascii_digit()) on bytes[from..]: the set is
\* empty for None, else its least element is from + position (from 0).
NonDigits(bytes, from) ==
    {n \in from..Len(bytes) - 1 : ~is_ascii_digit(bytes[n + 1])}

Least(S) == CHOOSE n \in S : \A m \in S : n <= m

decode_int(bytes) ==
    IF Len(bytes) < 3 THEN Err("reached eof")
    ELSE IF bytes[1] /= "i" THEN Err("unexpected delimiter")
    ELSE IF SubSeq(bytes, 2, 3) = <<"0", "e">>
    THEN Ok([kind |-> "Int", index |-> 0, int |-> 0, size |-> 3])
    ELSE IF bytes[2] = "0" THEN Err("no leading zeroes allowed")
    ELSE IF SubSeq(bytes, 2, 3) = <<"-", "0">>
    THEN Err("negative zero not allowed")
    ELSE IF NonDigits(bytes, 2) = {} THEN Err("reached eof")
    ELSE LET at == Least(NonDigits(bytes, 2))
             text == SubSeq(bytes, 2, at)
         IN  IF bytes[at + 1] /= "e" THEN Err("unexpected char")
             ELSE IF ~ParsesI64(text) THEN Panic
             ELSE Ok([kind |-> "Int", index |-> 0, int |-> ParseI64(text),
                      size |-> at + 1])

decode_str(bytes) ==
    IF Len(bytes) < 2 THEN Err("reached eof")
    ELSE IF NonDigits(bytes, 0) = {} THEN Err("reached eof")
    ELSE LET index == Least(NonDigits(bytes, 0))
             text == SubSeq(bytes, 1, index)
             len == Decimal(text)
         IN  IF bytes[index + 1] /= ":" THEN Err("unexpected char")
             ELSE IF ~ParsesUsize(text) THEN Panic
             ELSE IF len + index >= Len(bytes) THEN Err("reached eof")
             ELSE Ok([kind |-> "Str", index |-> 0,
                      byte_str |-> SubSeq(bytes, index + 2, index + len + 1),
                      size |-> index + len + 1])

\* The value a container stores for a decoded element: the same value with
\* the position at which the container found it.
Reindexed(v, index) == [v EXCEPT !.index = index]

\* HashMap::insert
Insert(d, key, v) ==
    [k \in DOMAIN d \cup {key} |-> IF k = key THEN v ELSE d[k]]

EmptyDict == [k \in {} |-> 0]

RECURSIVE decode_element(_)
RECURSIVE decode_list_loop(_, _, _)
RECURSIVE decode_dict_loop(_, _, _)

decode_list(bytes) ==
    IF Len(bytes) < 2 THEN Err("reached eof")
    ELSE IF bytes[1] /= "l" THEN Err("unexpected char")
    ELSE IF bytes[2] = "e"
    THEN Ok([kind |-> "List", index |-> 0, list |-> <<>>, size |-> 2])
    ELSE decode_list_loop(bytes, 1, <<>>)

decode_dict(bytes) ==
    IF Len(bytes) < 2 THEN Err("reached eof")
    ELSE IF bytes[1] /= "d" THEN Err("unexpected char")
    ELSE IF bytes[2] = "e"
    THEN Ok([kind |-> "Dict", index |-> 0, dict |-> EmptyDict, size |-> 2])
    ELSE decode_dict_loop(bytes, 1, EmptyDict)

\* The match on the first byte that decode, decode_list and decode_dict make
\* for a value: 'i', 'l', 'd' or a digit.
decode_element(bytes) ==
    IF bytes[1] = "i" THEN decode_int(bytes)
    ELSE IF bytes[1] = "l" THEN decode_list(bytes)
    ELSE IF bytes[1] = "d" THEN decode_dict(bytes)
    ELSE decode_str(bytes)

IsElementStart(c) == c \in {"i", "l", "d"} \/ is_ascii_digit(c)

\* The loop of decode_list, at position index with the elements v.
decode_list_loop(bytes, index, v) ==
    IF index >= Len(bytes) THEN Err("reached eof")
    ELSE IF bytes[index + 1] = "e"
    THEN Ok([kind |-> "List", index |-> 0, list |-> v, size |-> index + 1])
    ELSE IF ~IsElementStart(bytes[index + 1]) THEN Err("unexpected char")
    ELSE CHOOSE out \in
             {IF r.tag /= "ok" THEN r
              ELSE decode_list_loop(bytes, index + r.val.size,
                                    Append(v, Reindexed(r.val, index))) :
                  r \in {decode_element(Suffix(bytes, index))}} : TRUE

\* The loop of decode_dict, at position index with the entries d.
decode_dict_loop(bytes, index, d) ==
    IF index >= Len(bytes) THEN Err("reached eof")
    ELSE IF bytes[index + 1] = "e"
    THEN Ok([kind |-> "Dict", index |-> 0, dict |-> d, size |-> index + 1])
    ELSE IF ~is_ascii_digit(bytes[index + 1]) THEN Err("unexpected char")
    ELSE CHOOSE out \in
             {IF key.tag /= "ok" THEN key
              ELSE LET at == index + key.val.size IN
                   IF at >= Len(bytes) THEN Err("reached eof")
                   ELSE IF ~IsElementStart(bytes[at + 1])
                   THEN Err("unexpected char")
                   ELSE CHOOSE res \in
                            {IF r.tag /= "ok" THEN r
                             ELSE decode_dict_loop(
                                      bytes, at + r.val.size,
                                      Insert(d, key.val.byte_str,
                                             Reindexed(r.val, at))) :
                                 r \in {decode_element(Suffix(bytes, at))}} : TRUE :
                  key \in {decode_str(Suffix(bytes, index))}} : TRUE

decode(bytes) ==
    IF bytes = <<>> THEN Err("reached eof")
    ELSE IF IsElementStart(bytes[1]) THEN decode_element(bytes)
    ELSE Err("unexpected char")

\* -------------------------------------------------------------- descriptor

\* "announce".as_bytes() and the like.
Key(name) ==
    CASE name = "announce" ->
             <<"a", "n", "n", "o", "u", "n", "c", "e">>
      [] name = "info" ->
             <<"i", "n", "f", "o">>
      [] name = "name" ->
             <<"n", "a", "m", "e">>
      [] name = "piece length" ->
             <<"p", "i", "e", "c", "e", " ", "l", "e", "n", "g", "t", "h">>
      [] name = "pieces" ->
             <<"p", "i", "e", "c", "e", "s">>
      [] name = "length" ->
             <<"l", "e", "n", "g", "t", "h">>
      [] name = "files" ->
             <<"f", "i", "l", "e", "s">>
      [] name = "path" ->
             <<"p", "a", "t", "h">>

None == [some |-> FALSE]

Some(x) == [some |-> TRUE, val |-> x]

\* The range without its last byte.
RecordedShort(original, v) ==
    SubSeq(original, v.index + 1, v.index + v.size - 1)

\* The bytes original[index..index + size] a decoded value records for itself.
Recorded(original, v) == SubSeq(original, v.index + 1, v.index + v.size)

\* The body of `for elem in list` for an element that is a dictionary: the
\* File pushed, or the Err returned.  (A path keeps its components; a
\* component that is no string is empty.)
FileOf(elem) ==
    LET dict == elem.dict IN
    IF Key("length") \notin DOMAIN dict
    THEN Err("file length not found in dictionary")
    ELSE IF dict[Key("length")].kind /= "Int"
    THEN Err("file length should be an integer")
    ELSE IF Key("path") \notin DOMAIN dict
    THEN Err("file path not found in dictionary")
    ELSE IF dict[Key("path")].kind /= "List"
    THEN Err("file path should be a list")
    ELSE LET file_path == dict[Key("path")].list IN
         Ok([length |-> dict[Key("length")].int,
             path |-> [n \in DOMAIN file_path |->
                          IF file_path[n].kind = "Str"
                          THEN file_path[n].byte_str ELSE <<>>]])

\* The rest of TorrentMetaInfo::new once announce and the info dictionary
\* are found.  (Every byte of the model is ASCII: from_utf8 succeeds.)
InfoOf(contents, announce, info) ==
    LET info_dict == info.dict
        info_hash == Sha1(Recorded(contents, info))
        Is(name, kind) ==
            name \in DOMAIN info_dict /\ info_dict[name].kind = kind
        IsDict(elem) == elem.kind = "Dict"
        elems == SelectSeq(info_dict[Key("files")].list, IsDict)
        bad == {n \in DOMAIN elems : FileOf(elems[n]).tag = "err"}
    IN
    IF Key("name") \notin DOMAIN info_dict
    THEN Err("name not found in info_dict dictionary")
    ELSE IF info_dict[Key("name")].kind /= "Str"
    THEN Err("name should be a UTF-8 encoded string")
    ELSE IF Key("piece length") \notin DOMAIN info_dict
    THEN Err("piece length not found in info_dict dictionary")
    ELSE IF info_dict[Key("piece length")].kind /= "Int"
    THEN Err("piece length should be an integer")
    ELSE IF Key("pieces") \notin DOMAIN info_dict
    THEN Err("pieces not found in info_dict dictionary")
    ELSE IF info_dict[Key("pieces")].kind /= "Str"
    THEN Err("pieces should be a byte string")
    ELSE IF Is(Key("files"), "List") /\ bad /= {}
    THEN FileOf(elems[Least(bad)])
    ELSE LET pieces_byte_string == info_dict[Key("pieces")].byte_str IN
         Ok([announce |-> announce,
             info |->
                 [name |-> info_dict[Key("name")].byte_str,
                  piece_length |-> info_dict[Key("piece length")].int,
                  pieces |->
                      [n \in 1..(Len(pieces_byte_string) \div 20) |->
                          SubSeq(pieces_byte_string, (n - 1) * 20 + 1,
                                 n * 20)],
                  length |->
                      IF Is(Key("length"), "Int")
                      THEN Some(info_dict[Key("length")].int) ELSE None,
                  files |->
                      IF Is(Key("files"), "List")
                      THEN Some([n \in DOMAIN elems |->
                                    FileOf(elems[n]).val])
                      ELSE None,
                  hash |-> info_hash]])

\* TorrentMetaInfo::new(contents)
TorrentMetaInfoNew(contents) ==
    LET r == decode(contents) IN
    IF r.tag /= "ok" THEN r
    ELSE IF r.val.kind /= "Dict" THEN Err("should be a dictionary")
    ELSE LET dict == r.val.dict IN
         IF Key("announce") \notin DOMAIN dict
         THEN Err("announce not found in metainfo dictionary")
         ELSE IF dict[Key("announce")].kind /= "Str"
         THEN Err("announce should be a UTF-8 encoded string")
         ELSE IF Key("info") \notin DOMAIN dict
         THEN Err("info dict not found in metainfo dictionary")
         ELSE IF dict[Key("info")].kind /= "Dict"
         THEN Err("info should be a dictionary")
         ELSE InfoOf(contents, dict[Key("announce")].byte_str,
                     dict[Key("info")])

\* ------------------------------------------------------------------- state

VARIABLES
    pieces,         \* download_from: the piece table (&mut Vec<Piece>)
    peers,          \* download_from: the parameter peers (their sockets)
    workers,        \* download_from: the workers whose handshake succeeded
    spawn_next,     \* download_from: the position in `for peer in peers`
    mpc,            \* the coordinator's position in download_from
    from_worker,    \* the channel workers -> coordinator
    to_worker,      \* per worker, the channel coordinator -> worker
    sent,           \* per worker, every ManagerMsg the coordinator has sent it
    num_bitfields,  \* download_from: counter of Bitfield events
    pieces_table,   \* download_from: the flush buffer of (index, buffer)
    size,           \* download_from: bytes pushed to the flush buffer
    workers_done,   \* download_from: workers found out of work
    file,           \* the writes made to the file "part", in order
    wpc,            \* per peer, the position of its worker thread
    job_queue,      \* per worker, its VecDeque<Job>
    piece_buffer,   \* per worker, its piece_buffer
    conn,           \* per worker, its TCP connection: "up" or "down"
    read_failed,    \* per worker, whether a read of its message loop failed
    wire,           \* per worker, what it wrote that the peer has not consumed
    peer_bits,      \* per peer, the bitfield payload it advertises
    bf_sent,        \* per peer, whether it has sent its bitfield
    piece_len,      \* download_from: the parameter piece_len
    total_length,   \* run: the length of the torrent, which the peers serve
    input,          \* run: contents, the bytes read from the descriptor file
    decoded,        \* the result of decode(contents)
    metainfo,       \* run: the result of TorrentMetaInfo::new(contents)
    overflow_checks,\* whether the build panics on integer overflow (debug);
                    \* "unknown" until the run depends on it
    faults          \* the faults of the environment so far

vars == <<pieces, peers, workers, spawn_next, mpc, from_worker, to_worker, sent,
          num_bitfields, pieces_table, size, workers_done, file, wpc,
          job_queue, piece_buffer, conn, read_failed, wire, peer_bits,
          bf_sent, piece_len, total_length, input,
          decoded, metainfo, overflow_checks, faults>>

\* The bitfield payloads a peer of a torrent with n pieces may advertise (the
\* spare bits of the last byte are zero).
Bitfields(n) == {<<ByteOf(S)>> : S \in SUBSET (0..n - 1)}

\* What decoded and metainfo hold when the model does not follow the reading
\* of the descriptor.
Unread == [tag |-> "none"]

\* The state download_from starts from, called with a table, a piece length
\* and peers.
InitDownload(table, total, plen, ps, bits) ==
    /\ pieces = table
    /\ total_length = total
    /\ input = <<>>
    /\ decoded = Unread
    /\ metainfo = Unread
    /\ peers = ps
    /\ piece_len = plen
    /\ overflow_checks = "unknown"
    /\ faults = 0
    /\ workers = <<>>
    /\ spawn_next = 1
    /\ mpc = IF ps = <<>> THEN "loop" ELSE "spawn"
    /\ from_worker = <<>>
    /\ to_worker = [p \in Peers |-> <<>>]
    /\ sent = [p \in Peers |-> <<>>]
    /\ num_bitfields = 0
    /\ pieces_table = <<>>
    /\ size = 0
    /\ workers_done = 0
    /\ file = <<>>
    /\ wpc = [p \in Peers |-> "connecting"]
    /\ job_queue = [p \in Peers |-> <<>>]
    /\ piece_buffer = [p \in Peers |-> <<>>]
    /\ conn = [p \in Peers |-> "up"]
    /\ read_failed = [p \in Peers |-> FALSE]
    /\ wire = [p \in Peers |-> <<>>]
    /\ peer_bits = bits
    /\ bf_sent = [p \in Peers |-> FALSE]

\* The state download_from starts from, for the table of a descriptor.
InitWith(desc, ps, bits) ==
    InitDownload(PieceTable(desc), TotalLength(desc), NominalLen, ps, bits)

\* download_from called with NumPeers peers and a table of NumPieces pieces.
Init ==
    \E desc \in Descriptors(NumPieces), bits \in [Peers -> Bitfields(NumPieces)] :
        InitWith(desc, [i \in 1..NumPeers |-> i], bits)

\* A panic of the main thread ends the process, and with it every thread.
ProcessAlive == mpc /= "panicked"

\* The Receiver of a worker's channel lives as long as its thread.
ReceiverAlive(w) == wpc[w] \notin {"dead", "panicked"}

\* `for msg in from_worker` owns the coordinator's Receiver: it is dropped
\* when the loop is left.
ManagerReceives == mpc \in {"spawn", "loop"}

\* ------------------------------------------------------------- coordinator

\* impl Ord for Piece: pieces compare by the number of recorded peers.
PieceLe(a, b) == Len(a.peers) <= Len(b.peers)

\* The position pieces.sort() gives the piece at position k: after the pieces
\* that are less and, the sort being stable, after the equal ones before it.
SortedPosition(ps, k) ==
    1 + Cardinality({i \in 1..Len(ps) :
                        \/ ~PieceLe(ps[k], ps[i])
                        \/ PieceLe(ps[i], ps[k]) /\ PieceLe(ps[k], ps[i]) /\ i < k})

\* pieces.sort()
SortPieces(ps) ==
    [pos \in 1..Len(ps) |->
        ps[CHOOSE k \in 1..Len(ps) : SortedPosition(ps, k) = pos]]

\* A give_out_job that looks at the state only: every Available position.
AnyAvailable(ps, w) == {k \in 1..Len(ps) : ps[k].job_state = "Available"}

\* The positions give_out_job may pick for worker w: Available and owned by w.
Assignable(ps, w) ==
    {k \in 1..Len(ps) :
        /\ ps[k].job_state = "Available"
        /\ \E i \in 1..Len(ps[k].peers) : ps[k].peers[i] = w}

\* A give_out_job that picks the last such position in table order.
LastAssignable(ps, w) ==
    CHOOSE k \in Assignable(ps, w) : \A m \in Assignable(ps, w) : k >= m

\* The position give_out_job picks: the first one in table order.
FirstAssignable(ps, w) ==
    CHOOSE k \in Assignable(ps, w) : \A m \in Assignable(ps, w) : k <= m

JobMsg(p) ==
    [type |-> "JobMsg", index |-> p.index, length |-> p.length, hash |-> p.hash]

DoneMsg == [type |-> "Done"]

\* give_out_job on table ps, channels tw and log lg, for worker w.  result is
\* "sent", "none" (returns false) or "panic" (send(..).unwrap() on a channel
\* whose Receiver is gone).
give_out_job(ps, tw, lg, w) ==
    IF Assignable(ps, w) = {}
    THEN [result |-> "none", pieces |-> ps, to_worker |-> tw, sent |-> lg]
    ELSE LET k == FirstAssignable(ps, w) IN
         IF ~ReceiverAlive(w)
         THEN [result |-> "panic", pieces |-> ps, to_worker |-> tw, sent |-> lg]
         ELSE [result |-> "sent",
               pieces |-> [ps EXCEPT ![k].job_state = "Downloading"],
               to_worker |-> [tw EXCEPT ![w] = Append(@, JobMsg(ps[k]))],
               sent |-> [lg EXCEPT ![w] = Append(@, JobMsg(ps[k]))]]

RECURSIVE InitialDispatch(_, _, _, _)
\* for worker in &workers { if !give_out_job(pieces, worker) { panic!(..) } }
InitialDispatch(ps, tw, lg, ws) ==
    IF ws = <<>>
    THEN [result |-> "sent", pieces |-> ps, to_worker |-> tw, sent |-> lg]
    ELSE CHOOSE out \in
             {IF r.result = "sent"
              THEN InitialDispatch(r.pieces, r.to_worker, r.sent, Tail(ws))
              ELSE [r EXCEPT !.result = "panic"] :
                  r \in {give_out_job(ps, tw, lg, Head(ws))}} : TRUE

\* The table positions (from 0) a bitfield payload names: byte i, bit j names
\* position i * 8 + j.
BitPositions(bitfield) ==
    {pos \in 0..(8 * Len(bitfield) - 1) :
        BitSet(bitfield[(pos \div 8) + 1], pos % 8)}

\* pieces[i * 8 + j].peers.push(socket) for every bit set.
PushPeers(ps, positions, socket) ==
    [k \in 1..Len(ps) |->
        IF (k - 1) \in positions
        THEN [ps[k] EXCEPT !.peers = Append(@, socket)]
        ELSE ps[k]]

\* Worker::new: the handshake of the next peer succeeds and its thread
\* enters the message loop.
WorkerNewOk ==
    /\ mpc = "spawn"
    /\ workers' = Append(workers, peers[spawn_next])
    /\ wpc' = [wpc EXCEPT ![peers[spawn_next]] = "read"]
    /\ spawn_next' = spawn_next + 1
    /\ mpc' = IF spawn_next = Len(peers) THEN "loop" ELSE "spawn"
    /\ UNCHANGED <<pieces, peers, from_worker, to_worker, sent, num_bitfields,
                   pieces_table, size, workers_done, file, job_queue,
                   piece_buffer, conn, read_failed, wire, peer_bits, bf_sent,
                   piece_len, total_length, input,
                   decoded, metainfo, overflow_checks, faults>>

\* Worker::new: the handshake fails, the thread returns, None is returned.
WorkerNewFail ==
    /\ mpc = "spawn"
    /\ wpc' = [wpc EXCEPT ![peers[spawn_next]] = "failed"]
    /\ spawn_next' = spawn_next + 1
    /\ mpc' = IF spawn_next = Len(peers) THEN "loop" ELSE "spawn"
    /\ UNCHANGED <<pieces, peers, workers, from_worker, to_worker, sent,
                   num_bitfields, pieces_table, size, workers_done, file,
                   job_queue, piece_buffer, conn, read_failed, wire, peer_bits, bf_sent,
                   piece_len, total_length, input,
                   decoded, metainfo, overflow_checks, faults>>

\* download_from, the arm WorkerMsg::Bitfield of the event loop.
ManagerBitfield ==
    /\ mpc = "loop"
    /\ from_worker /= <<>>
    /\ Head(from_worker).type = "Bitfield"
    /\ LET msg == Head(from_worker)
           positions == BitPositions(msg.bitfield)
       IN  /\ from_worker' = Tail(from_worker)
           /\ IF \E pos \in positions : pos >= Len(pieces)
              THEN \* index out of bounds
                   /\ mpc' = "panicked"
                   /\ UNCHANGED <<pieces, num_bitfields, to_worker, sent>>
              ELSE /\ num_bitfields' = num_bitfields + 1
                   /\ \E pushed \in {PushPeers(pieces, positions, msg.socket)} :
                      IF num_bitfields + 1 = Len(workers)
                      THEN \E sorted \in {SortPieces(pushed)} :
                           \E r \in {InitialDispatch(sorted, to_worker, sent,
                                                     workers)} :
                              /\ pieces' = r.pieces
                              /\ to_worker' = r.to_worker
                              /\ sent' = r.sent
                              /\ mpc' = IF r.result = "panic"
                                        THEN "panicked" ELSE "loop"
                      ELSE /\ pieces' = pushed
                           /\ UNCHANGED <<to_worker, sent, mpc>>
    /\ UNCHANGED <<peers, workers, spawn_next, pieces_table, size, workers_done, file,
                   wpc, job_queue, piece_buffer, conn, read_failed, wire, peer_bits,
                   bf_sent, piece_len, total_length, input,
                   decoded, metainfo, overflow_checks, faults>>

InsertEntry(sorted, e) ==
    LET k == Cardinality({i \in 1..Len(sorted) : sorted[i][1] <= e[1]})
    IN  SubSeq(sorted, 1, k) \o <<e>> \o SubSeq(sorted, k + 1, Len(sorted))

RECURSIVE SortTable(_)
\* pieces_table.sort() on (index, buffer) pairs.  Two entries of one index
\* hold the same verified bytes, so the index alone orders them.
SortTable(t) ==
    IF t = <<>> THEN <<>> ELSE InsertEntry(SortTable(Front(t)), Last(t))

\* A write that seeks to the index instead of index * piece_length.
write_pieces_table_at_index(t, k) ==
    [i \in 1..k |-> [offset |-> t[i][1], buffer |-> t[i][2]]]

\* write_pieces_table_to_file: each (index, buffer) is written at offset
\* index * piece_length.  A storage error (open, seek, write, sync) ends the
\* call after the first k entries.
write_pieces_table_to_file(t, k) ==
    [i \in 1..k |-> [offset |-> t[i][1] * piece_len, buffer |-> t[i][2]]]

\* pieces.iter_mut().find(|x| x.index == index)
FindPiece(ps, index) ==
    LET hits == {k \in 1..Len(ps) : ps[k].index = index}
    IN  IF hits = {} THEN 0 ELSE CHOOSE k \in hits : \A m \in hits : k <= m

RECURSIVE SendDone(_, _, _)
\* for worker in &workers { worker.sender.send(ManagerMsg::Done).unwrap(); }
SendDone(tw, lg, ws) ==
    IF ws = <<>> THEN [result |-> "sent", to_worker |-> tw, sent |-> lg]
    ELSE IF ~ReceiverAlive(Head(ws))
         THEN [result |-> "panic", to_worker |-> tw, sent |-> lg]
         ELSE SendDone([tw EXCEPT ![Head(ws)] = Append(@, DoneMsg)],
                       [lg EXCEPT ![Head(ws)] = Append(@, DoneMsg)], Tail(ws))

\* download_from, the arm WorkerMsg::Piece of the event loop.
ManagerPiece ==
    /\ mpc = "loop"
    /\ from_worker /= <<>>
    /\ Head(from_worker).type = "Piece"
    /\ \E msg \in {Head(from_worker)} :
       \E at \in {FindPiece(pieces, msg.index)} :
       \E r \in {give_out_job([pieces EXCEPT ![at].job_state = "Done"],
                              to_worker, sent, msg.socket)} :
       \E d \in {SendDone(r.to_worker, r.sent, workers)} :
       LET pushed == Append(pieces_table, <<msg.index, msg.buffer>>)
           flush == size + SumLen(msg.buffer) > FlushThreshold
           last == r.result = "none" /\ workers_done + 1 = Len(workers)
       IN  /\ from_worker' = Tail(from_worker)
           /\ size' = size + SumLen(msg.buffer)
           /\ \E k \in IF flush THEN 0..Len(pushed) ELSE {0} :
                 /\ file' = file \o write_pieces_table_to_file(SortTable(pushed), k)
                 /\ pieces_table' = IF flush THEN <<>> ELSE pushed
           /\ IF at = 0 \/ \A i \in 1..Len(workers) : workers[i] /= msg.socket
              THEN \* find(..).unwrap() on None
                   /\ mpc' = "panicked"
                   /\ UNCHANGED <<pieces, to_worker, sent, workers_done>>
              ELSE /\ pieces' = r.pieces
                   /\ workers_done' =
                          IF r.result = "none" THEN workers_done + 1
                          ELSE workers_done
                   /\ to_worker' = IF last THEN d.to_worker ELSE r.to_worker
                   /\ sent' = IF last THEN d.sent ELSE r.sent
                   /\ mpc' = IF r.result = "panic" \/ (last /\ d.result = "panic")
                             THEN "panicked"
                             ELSE IF last THEN "drain" ELSE "loop"
    /\ UNCHANGED <<peers, workers, spawn_next, num_bitfields, wpc, job_queue,
                   piece_buffer, conn, read_failed, wire, peer_bits, bf_sent,
                   piece_len, total_length, input,
                   decoded, metainfo, overflow_checks, faults>>

\* download_from after the event loop: the final write of the flush buffer.
ManagerDrain ==
    /\ mpc = "drain"
    /\ \E k \in 0..Len(pieces_table) :
          file' = file \o write_pieces_table_to_file(pieces_table, k)
    /\ pieces_table' = <<>>
    /\ mpc' = "join"
    /\ UNCHANGED <<pieces, peers, workers, spawn_next, from_worker, to_worker, sent,
                   num_bitfields, size, workers_done, wpc, job_queue,
                   piece_buffer, conn, read_failed, wire, peer_bits, bf_sent,
                   piece_len, total_length, input,
                   decoded, metainfo, overflow_checks, faults>>

\* for worker in workers { let _ = worker.thread.join(); }
ManagerJoin ==
    /\ mpc = "join"
    /\ \A i \in 1..Len(workers) : wpc[workers[i]] \in {"dead", "panicked"}
    /\ mpc' = "returned"
    /\ UNCHANGED <<pieces, peers, workers, spawn_next, from_worker, to_worker, sent,
                   num_bitfields, pieces_table, size, workers_done, file, wpc,
                   job_queue, piece_buffer, conn, read_failed, wire, peer_bits, bf_sent,
                   piece_len, total_length, input,
                   decoded, metainfo, overflow_checks, faults>>

\* ------------------------------------------------------------------ worker

\* What a worker thread never writes: the coordinator's locals, the log of
\* its sends, the build and the peers' bitfields.
manager_vars == <<pieces, peers, workers, spawn_next, mpc, sent, num_bitfields,
                  pieces_table, size, workers_done, file, piece_len, total_length, input,
                  decoded, metainfo, peer_bits,
                  read_failed>>

\* The environment may commit one more fault.
MayFault == faults < MaxFaults

NewJob(msg) ==
    [index |-> msg.index, length |-> msg.length, downloaded_length |-> 0,
     hash |-> msg.hash]

\* The request request_block writes for the job at the front of the queue.
\* length - downloaded_length is a u64 difference cast to u32: when it has
\* wrapped (downloaded_length > length, a build without overflow checks) the
\* cast leaves 2^32 - (downloaded_length - length) bytes, which is above the
\* cap for every length of the model.
Request(job) ==
    [id |-> 6, index |-> job.index,
     begin |-> job.downloaded_length,
     length |-> IF job.downloaded_length <= job.length
                THEN Min(job.length - job.downloaded_length, ReqCap)
                ELSE ReqCap]

\* A request_block that writes nothing.
request_block_silent(jq) == <<>>

\* request_block: the bytes it writes to the stream (nothing without a job).
request_block(jq) == IF jq = <<>> THEN <<>> ELSE <<Request(Head(jq))>>

\* let interested = vec![0u8, 0u8, 0u8, 1u8, 2u8]: the message of id 2.
Interested == [id |-> 2]

IsRequest(m) == m.id = 6

\* A request a peer serves: a block inside the piece of the torrent it names.
Servable(req) ==
    /\ req.index < NumDigests(total_length)
    /\ req.length > 0
    /\ req.begin + req.length <= TrueLen(req.index, total_length)

\* The worker thread of peer w is in read_msg, at the top of its loop.
Reading(w) == ProcessAlive /\ wpc[w] = "read" /\ conn[w] = "up"

\* The build of the run, where an overflow makes it matter.
Builds == IF overflow_checks = "unknown" THEN {"on", "off"} ELSE {overflow_checks}

\* handle_peer_msg, id 1 (unchoke): request_block.
HandleUnchoke(w, rest) ==
    /\ wire' = [wire EXCEPT ![w] = rest \o request_block(job_queue[w])]
    /\ UNCHANGED <<manager_vars, from_worker, to_worker, wpc, job_queue,
                   piece_buffer, conn, bf_sent, overflow_checks>>

\* The peer answers the worker's interested with unchoke.
PeerUnchoke(w) ==
    /\ Reading(w)
    /\ wire[w] /= <<>> /\ Head(wire[w]).id = 2
    /\ HandleUnchoke(w, Tail(wire[w]))
    /\ UNCHANGED faults

\* The peer sends an unchoke while a request may be outstanding (after a
\* choke, say).
PeerUnchokeAgain(w) ==
    /\ Reading(w)
    /\ MayFault
    /\ job_queue[w] /= <<>>
    /\ wire[w] /= <<>> => IsRequest(Head(wire[w]))
    /\ HandleUnchoke(w, wire[w])
    /\ faults' = faults + 1

\* handle_bitfield_msg up to from_manager.recv(): the payload is forwarded
\* and the thread blocks for the coordinator's answer.
HandleBitfield(w) ==
    /\ IF ManagerReceives
       THEN /\ from_worker' = Append(from_worker,
                   [type |-> "Bitfield", socket |-> w, bitfield |-> peer_bits[w]])
            /\ wpc' = [wpc EXCEPT ![w] = "await_bitfield_job"]
       ELSE \* to_manager.send(..).unwrap() with the Receiver dropped
            /\ wpc' = [wpc EXCEPT ![w] = "panicked"]
            /\ UNCHANGED from_worker
    /\ bf_sent' = [bf_sent EXCEPT ![w] = TRUE]
    /\ UNCHANGED <<manager_vars, to_worker, job_queue, piece_buffer, conn,
                   wire, overflow_checks>>

\* The peer sends its bitfield (id 5), the first message after the handshake.
PeerBitfield(w) ==
    /\ Reading(w)
    /\ ~bf_sent[w]
    /\ HandleBitfield(w)
    /\ UNCHANGED faults

\* The peer sends a bitfield once more.
PeerBitfieldAgain(w) ==
    /\ Reading(w)
    /\ MayFault
    /\ bf_sent[w]
    /\ HandleBitfield(w)
    /\ faults' = faults + 1

\* stream.write(..).unwrap() on a connection that is down either still
\* succeeds (the bytes are lost) or fails, and then the thread panics.
WriteOutcomes(w) == IF conn[w] = "up" THEN {TRUE} ELSE BOOLEAN

\* handle_bitfield_msg from from_manager.recv() on: a JobMsg is queued and
\* interested is written; anything else is panic!("impossible").
BitfieldJob(w) ==
    /\ ProcessAlive
    /\ wpc[w] = "await_bitfield_job"
    /\ to_worker[w] /= <<>>
    /\ to_worker' = [to_worker EXCEPT ![w] = Tail(@)]
    /\ LET msg == Head(to_worker[w]) IN
       IF msg.type = "JobMsg"
       THEN /\ job_queue' = [job_queue EXCEPT ![w] = Append(@, NewJob(msg))]
            /\ \E written \in WriteOutcomes(w) :
                  /\ wpc' = [wpc EXCEPT ![w] = IF written THEN "read" ELSE "panicked"]
                  /\ wire' = [wire EXCEPT ![w] =
                                 IF written /\ conn[w] = "up"
                                 THEN Append(@, Interested) ELSE @]
       ELSE /\ wpc' = [wpc EXCEPT ![w] = "panicked"]
            /\ UNCHANGED <<job_queue, wire>>
    /\ UNCHANGED <<manager_vars, from_worker, piece_buffer, conn, bf_sent,
                   overflow_checks, faults>>

\* A check that accepts every buffer.
VerifiedAlways(job, buf) == TRUE

\* *hash == sha1::Sha1::from(&piece_buffer).digest().bytes()
Verified(job, buf) == job.hash = Sha1(buf)

\* handle_piece_msg for a piece message (id 7) whose payload, after the 8
\* bytes of index and begin, is the run blk.
HandlePiece(w, blk, rest) ==
    LET buf == Extend(piece_buffer[w], blk)
        job == Head(job_queue[w])
        got == job.downloaded_length + blk.len
        advanced == [job_queue[w] EXCEPT ![1].downloaded_length = got]
        reset == [job_queue[w] EXCEPT ![1].downloaded_length = 0]
    IN
    IF job_queue[w] = <<>>
    THEN /\ piece_buffer' = [piece_buffer EXCEPT ![w] = buf]
         /\ wire' = [wire EXCEPT ![w] = rest]
         /\ UNCHANGED <<from_worker, wpc, job_queue, overflow_checks>>
    ELSE IF got > job.length
    THEN \* length - downloaded_length overflows: a build with overflow
         \* checks panics, one without goes on with the wrapped difference
         /\ piece_buffer' = [piece_buffer EXCEPT ![w] = buf]
         /\ job_queue' = [job_queue EXCEPT ![w] = advanced]
         /\ \E build \in Builds :
               /\ overflow_checks' = build
               /\ IF build = "on"
                  THEN /\ wpc' = [wpc EXCEPT ![w] = "panicked"]
                       /\ wire' = [wire EXCEPT ![w] = rest]
                  ELSE /\ wire' = [wire EXCEPT ![w] =
                                      rest \o request_block(advanced)]
                       /\ UNCHANGED wpc
         /\ UNCHANGED from_worker
    ELSE IF got /= job.length
    THEN /\ piece_buffer' = [piece_buffer EXCEPT ![w] = buf]
         /\ job_queue' = [job_queue EXCEPT ![w] = advanced]
         /\ wire' = [wire EXCEPT ![w] = rest \o request_block(advanced)]
         /\ UNCHANGED <<from_worker, wpc, overflow_checks>>
    ELSE IF Verified(job, buf)
    THEN /\ job_queue' = [job_queue EXCEPT ![w] = advanced]
         /\ wire' = [wire EXCEPT ![w] = rest]
         /\ UNCHANGED overflow_checks
         /\ IF ManagerReceives
            THEN /\ from_worker' = Append(from_worker,
                        [type |-> "Piece", socket |-> w, index |-> job.index,
                         buffer |-> buf])
                 /\ piece_buffer' = [piece_buffer EXCEPT ![w] = <<>>]
                 /\ wpc' = [wpc EXCEPT ![w] = "await_next_job"]
            ELSE /\ piece_buffer' = [piece_buffer EXCEPT ![w] = buf]
                 /\ wpc' = [wpc EXCEPT ![w] = "panicked"]
                 /\ UNCHANGED from_worker
    ELSE /\ piece_buffer' = [piece_buffer EXCEPT ![w] = buf]
         /\ job_queue' = [job_queue EXCEPT ![w] = reset]
         /\ wire' = [wire EXCEPT ![w] = rest \o request_block(reset)]
         /\ UNCHANGED <<from_worker, wpc, overflow_checks>>

\* The block a peer sends for request req; ok says whether its bytes are
\* the piece's.
Block(req, ok) ==
    [piece |-> req.index, begin |-> req.begin, len |-> req.length, ok |-> ok]

\* The peer can answer the oldest request of worker w with a block.
CanServe(w, ok) ==
    /\ Reading(w)
    /\ wire[w] /= <<>> /\ IsRequest(Head(wire[w])) /\ Servable(Head(wire[w]))
    /\ Len(Extend(piece_buffer[w], Block(Head(wire[w]), ok))) <= MaxRuns

\* The peer answers the oldest request with the bytes asked for.
PeerPiece(w) ==
    /\ CanServe(w, TRUE)
    /\ HandlePiece(w, Block(Head(wire[w]), TRUE), Tail(wire[w]))
    /\ UNCHANGED <<manager_vars, to_worker, conn, bf_sent, faults>>

\* The peer answers the request for the start of a piece with one piece
\* message that carries the whole piece.
PeerWholePiece(w) ==
    /\ Reading(w)
    /\ wire[w] /= <<>> /\ IsRequest(Head(wire[w]))
    /\ job_queue[w] /= <<>>
    /\ Head(wire[w]).index = Head(job_queue[w]).index
    /\ Head(wire[w]).begin = 0
    /\ Head(job_queue[w]).downloaded_length = 0
    /\ HandlePiece(w, Content(Head(wire[w]).index,
                             Head(job_queue[w]).length)[1], Tail(wire[w]))
    /\ UNCHANGED <<manager_vars, to_worker, conn, bf_sent, faults>>

\* The peer answers the oldest request with bytes that are not the piece's.
PeerCorruptPiece(w) ==
    /\ CanServe(w, FALSE)
    /\ MayFault
    /\ HandlePiece(w, Block(Head(wire[w]), FALSE), Tail(wire[w]))
    /\ faults' = faults + 1
    /\ UNCHANGED <<manager_vars, to_worker, conn, bf_sent>>

\* The peer ignores a request for bytes outside the piece.
PeerDropsRequest(w) ==
    /\ ProcessAlive
    /\ conn[w] = "up"
    /\ wire[w] /= <<>> /\ IsRequest(Head(wire[w])) /\ ~Servable(Head(wire[w]))
    /\ wire' = [wire EXCEPT ![w] = Tail(@)]
    /\ UNCHANGED <<manager_vars, from_worker, to_worker, wpc, job_queue,
                   piece_buffer, conn, bf_sent, overflow_checks, faults>>

\* The peer sends a piece message with fewer than 8 bytes of payload:
\* &payload[8..] panics.
PeerShortPiece(w) ==
    /\ Reading(w)
    /\ MayFault
    /\ wpc' = [wpc EXCEPT ![w] = "panicked"]
    /\ faults' = faults + 1
    /\ UNCHANGED <<manager_vars, from_worker, to_worker, job_queue,
                   piece_buffer, conn, wire, bf_sent, overflow_checks>>

\* A keep-alive (read_msg returns Ok(None)) or a message of an id other than
\* 1, 5 and 7 ("unhandled request"): the loop reads on.
PeerOther(w) ==
    /\ Reading(w)
    /\ UNCHANGED vars

\* handle_piece_msg from from_manager.recv() on: the next job replaces the
\* finished one and its first block is requested, or Done ends the thread.
NextJob(w) ==
    /\ ProcessAlive
    /\ wpc[w] = "await_next_job"
    /\ to_worker[w] /= <<>>
    /\ to_worker' = [to_worker EXCEPT ![w] = Tail(@)]
    /\ LET msg == Head(to_worker[w])
           jq == Tail(Append(job_queue[w], NewJob(msg)))
       IN
       IF msg.type = "JobMsg"
       THEN /\ job_queue' = [job_queue EXCEPT ![w] = jq]
            /\ \E written \in WriteOutcomes(w) :
                  /\ wpc' = [wpc EXCEPT ![w] = IF written THEN "read" ELSE "panicked"]
                  /\ wire' = [wire EXCEPT ![w] =
                                 IF written /\ conn[w] = "up"
                                 THEN @ \o request_block(jq) ELSE @]
       ELSE /\ wpc' = [wpc EXCEPT ![w] = "dead"]
            /\ UNCHANGED <<job_queue, wire>>
    /\ UNCHANGED <<manager_vars, from_worker, piece_buffer, conn, bf_sent,
                   overflow_checks, faults>>

\* The connection of worker w fails: the peer closes or resets it.
ConnDrop(w) ==
    /\ ProcessAlive
    /\ MayFault
    /\ wpc[w] \in {"read", "await_bitfield_job", "await_next_job"}
    /\ conn[w] = "up"
    /\ conn' = [conn EXCEPT ![w] = "down"]
    /\ wire' = [wire EXCEPT ![w] = <<>>]
    /\ faults' = faults + 1
    /\ UNCHANGED <<manager_vars, from_worker, to_worker, wpc, job_queue,
                   piece_buffer, bf_sent, overflow_checks>>

\* The message loop on a connection that is down: read_msg returns Err (or
\* never returns, read after read yielding 0 bytes); Err is printed and the
\* loop continues with the next read_msg.
ReadError(w) ==
    /\ ProcessAlive
    /\ wpc[w] = "read"
    /\ conn[w] = "down"
    /\ read_failed' = [read_failed EXCEPT ![w] = TRUE]
    /\ UNCHANGED <<pieces, peers, workers, spawn_next, mpc, sent,
                   num_bitfields, pieces_table, size, workers_done, file,
                   piece_len, total_length, input,
                   decoded, metainfo, peer_bits, from_worker, to_worker, wpc,
                   job_queue, piece_buffer, conn, wire, bf_sent,
                   overflow_checks, faults>>

\* ------------------------------------------------------------------ reader

\* The variables of download_from and of its workers, which the reading of
\* the descriptor leaves alone.
engine_vars == <<pieces, peers, workers, spawn_next, mpc, from_worker,
                 to_worker, sent, num_bitfields, pieces_table, size,
                 workers_done, file, wpc, job_queue, piece_buffer, conn,
                 read_failed, wire, peer_bits, bf_sent, piece_len,
                 total_length, overflow_checks, faults>>

\* The bytes the buffers of the model are made of.
Alphabet == {"i", "l", "d", "e", "0", "1", "-", "+", ":", "a"}

\* i42e
ExampleInt ==
    <<"i", "4", "2", "e">>

\* li1ei2ei3ee
ExampleList ==
    <<"l", "i", "1", "e", "i", "2", "e", "i", "3", "e", "e">>

\* d3:cow3:moo4:spam4:eggse
ExampleDict ==
    <<"d", "3", ":", "c", "o", "w", "3", ":", "m", "o", "o", "4", ":", "s",
    "p", "a", "m", "4", ":", "e", "g", "g", "s", "e">>

\* d4:infod1:xi1eee
ExampleInfo ==
    <<"d", "4", ":", "i", "n", "f", "o", "d", "1", ":", "x", "i", "1", "e",
    "e", "e">>

\* 03:abc
ExampleLeadingZeroLen ==
    <<"0", "3", ":", "a", "b", "c">>


\* The examples, with llleee and i-12e.
Examples ==
    {ExampleInt, ExampleList, ExampleDict, ExampleInfo,
     ExampleLeadingZeroLen, <<"l", "l", "l", "e", "e", "e">>,
     <<"i", "-", "1", "2", "e">>}

\* The keys length and files an info dictionary may hold: none,
\* 6:lengthi64e, 5:filesld6:lengthi48e4:pathl1:aeee, both, and 6:length1:a.
InfoKeys ==
    {<<>>,
     <<"6", ":", "l", "e", "n", "g", "t", "h", "i", "6", "4", "e">>,
     <<"5", ":", "f", "i", "l", "e", "s", "l", "d", "6", ":", "l", "e", "n",
     "g", "t", "h", "i", "4", "8", "e", "4", ":", "p", "a", "t", "h", "l",
     "1", ":", "a", "e", "e", "e">>,
     <<"6", ":", "l", "e", "n", "g", "t", "h", "i", "6", "4", "e", "5", ":",
     "f", "i", "l", "e", "s", "l", "d", "6", ":", "l", "e", "n", "g", "t",
     "h", "i", "4", "8", "e", "4", ":", "p", "a", "t", "h", "l", "1", ":",
     "a", "e", "e", "e">>,
     <<"6", ":", "l", "e", "n", "g", "t", "h", "1", ":", "a">>}

\* The descriptor d8:announce1:a4:infod<keys>4:name1:a12:piece lengthi48e
\* 6:pieces0:ee.
DescriptorWith(keys) ==
    <<"d", "8", ":", "a", "n", "n", "o", "u", "n", "c", "e", "1", ":", "a",
    "4", ":", "i", "n", "f", "o", "d">>
    \o keys \o
    <<"4", ":", "n", "a", "m", "e", "1", ":", "a", "1", "2", ":", "p", "i",
    "e", "c", "e", " ", "l", "e", "n", "g", "t", "h", "i", "4", "8", "e",
    "6", ":", "p", "i", "e", "c", "e", "s", "0", ":", "e", "e">>

\* The contents of the file run is given: every buffer of at most
\* MaxInputLen bytes of the alphabet, the examples and the descriptors.
Inputs ==
    UNION {[1..k -> Alphabet] : k \in 0..MaxInputLen}
        \cup Examples \cup {DescriptorWith(keys) : keys \in InfoKeys}

\* run before it builds the table: download_from is not called yet.
EngineIdle ==
    /\ pieces = <<>>
    /\ total_length = 0
    /\ peers = <<>>
    /\ piece_len = NominalLen
    /\ overflow_checks = "unknown"
    /\ faults = 0
    /\ workers = <<>>
    /\ spawn_next = 1
    /\ mpc = "run"
    /\ from_worker = <<>>
    /\ to_worker = [p \in Peers |-> <<>>]
    /\ sent = [p \in Peers |-> <<>>]
    /\ num_bitfields = 0
    /\ pieces_table = <<>>
    /\ size = 0
    /\ workers_done = 0
    /\ file = <<>>
    /\ wpc = [p \in Peers |-> "connecting"]
    /\ job_queue = [p \in Peers |-> <<>>]
    /\ piece_buffer = [p \in Peers |-> <<>>]
    /\ conn = [p \in Peers |-> "up"]
    /\ read_failed = [p \in Peers |-> FALSE]
    /\ wire = [p \in Peers |-> <<>>]
    /\ peer_bits = [p \in Peers |-> <<0>>]
    /\ bf_sent = [p \in Peers |-> FALSE]

\* run has read the file.
InitRead ==
    /\ input \in Inputs
    /\ decoded = Unread
    /\ metainfo = Unread
    /\ EngineIdle

\* decode(&contents)
Decode ==
    /\ mpc = "run"
    /\ decoded = Unread
    /\ decoded' = decode(input)
    /\ UNCHANGED <<input, metainfo, engine_vars>>

\* run: TorrentMetaInfo::new(&contents)
ReadDescriptor ==
    /\ mpc = "run"
    /\ metainfo = Unread
    /\ metainfo' = TorrentMetaInfoNew(input)
    /\ UNCHANGED <<input, decoded, engine_vars>>

\* The lengths a file of the model may have: multiples of the remainder
\* length, up to MaxFileUnits of them.
FileLengths == {k * RemainderLen : k \in 0..MaxFileUnits}

\* The info of an accepted descriptor, as far as run uses it for the table:
\* one length, or one or two files.  (It holds a digest for every index run
\* asks for.)
TableInfos ==
    {[length |-> Some(n), files |-> None] : n \in FileLengths}
        \cup {[length |-> None,
               files |-> Some([k \in DOMAIN ls |-> [length |-> ls[k]]])] :
                  ls \in [1..1 -> FileLengths] \cup [1..2 -> FileLengths]}

\* run holds the metainfo of an accepted descriptor.
InitTable ==
    /\ input = <<>>
    /\ decoded = Unread
    /\ \E info \in TableInfos : metainfo = Ok([info |-> info])
    /\ EngineIdle

\* run: the table and total_length it builds from metainfo.info.
BuildTable ==
    /\ mpc = "run"
    /\ metainfo.tag = "ok"
    /\ LET info == metainfo.val.info IN
       IF info.length.some
       THEN /\ pieces' = PieceTable([length |-> info.length.val])
            /\ total_length' = info.length.val
       ELSE IF info.files.some
       THEN \E files \in {[k \in DOMAIN info.files.val |->
                               info.files.val[k].length]} :
                /\ pieces' = PieceTable([files |-> files])
                /\ total_length' = TotalLength([files |-> files])
       ELSE pieces' = <<>> /\ total_length' = 0
    /\ mpc' = "table"
    /\ UNCHANGED <<input, decoded, metainfo, peers, workers, spawn_next,
                   from_worker, to_worker, sent, num_bitfields, pieces_table,
                   size, workers_done, file, wpc, job_queue, piece_buffer,
                   conn, read_failed, wire, peer_bits, bf_sent, piece_len,
                   overflow_checks, faults>>

\* ----------------------------------------------------------- specifications

Next ==
    \/ WorkerNewOk
    \/ WorkerNewFail
    \/ ManagerBitfield
    \/ ManagerPiece
    \/ ManagerDrain
    \/ ManagerJoin
    \/ \E w \in Peers : PeerBitfield(w)
    \/ \E w \in Peers : PeerBitfieldAgain(w)
    \/ \E w \in Peers : BitfieldJob(w)
    \/ \E w \in Peers : PeerUnchoke(w)
    \/ \E w \in Peers : PeerUnchokeAgain(w)
    \/ \E w \in Peers : PeerPiece(w)
    \/ \E w \in Peers : PeerCorruptPiece(w)
    \/ \E w \in Peers : PeerDropsRequest(w)
    \/ \E w \in Peers : PeerShortPiece(w)
    \/ \E w \in Peers : PeerOther(w)
    \/ \E w \in Peers : NextJob(w)
    \/ \E w \in Peers : ConnDrop(w)
    \/ \E w \in Peers : ReadError(w)

Spec == Init /\ [][Next]_vars

\* The steps of the coordinator thread.
ManagerStep ==
    \/ WorkerNewOk
    \/ WorkerNewFail
    \/ ManagerBitfield
    \/ ManagerPiece
    \/ ManagerDrain
    \/ ManagerJoin

\* The steps of worker w against a peer that follows the protocol: it sends
\* its bitfield once, answers interested with unchoke and every request with
\* the bytes asked for, and its connection stays up.
WorkerStep(w) ==
    \/ PeerBitfield(w)
    \/ BitfieldJob(w)
    \/ PeerUnchoke(w)
    \/ PeerPiece(w)
    \/ NextJob(w)

NextHonest ==
    \/ WorkerNewOk
    \/ WorkerNewFail
    \/ ManagerBitfield
    \/ ManagerPiece
    \/ ManagerDrain
    \/ ManagerJoin
    \/ \E w \in Peers : PeerBitfield(w)
    \/ \E w \in Peers : BitfieldJob(w)
    \/ \E w \in Peers : PeerUnchoke(w)
    \/ \E w \in Peers : PeerPiece(w)
    \/ \E w \in Peers : NextJob(w)

\* Threads are scheduled by the operating system and every peer answers: no
\* thread that can take a step waits for ever.
Fairness == WF_vars(ManagerStep) /\ \A w \in Peers : WF_vars(WorkerStep(w))

\* download_from against peers that follow the protocol, fairly scheduled.
FairSpec == Init /\ [][NextHonest]_vars /\ Fairness

\* download_from with the faults of the environment, fairly scheduled: a
\* thread that can take a step takes one, and a peer whose connection is up
\* answers.
SpecFaulty == Init /\ [][Next]_vars /\ Fairness

\* The run of two peers and four pieces: peer 1 has pieces {0, 1} and peer 2
\* has pieces {2, 3}; both handshakes succeed.
InitTwoPeers ==
    InitWith([length |-> 3 * NominalLen + RemainderLen], <<1, 2>>,
             [p \in Peers |-> IF p = 1 THEN <<ByteOf({0, 1})>>
                              ELSE IF p = 2 THEN <<ByteOf({2, 3})>>
                              ELSE <<0>>])

NextTwoPeers ==
    \/ WorkerNewOk
    \/ ManagerBitfield
    \/ ManagerPiece
    \/ ManagerDrain
    \/ ManagerJoin
    \/ \E w \in Peers : PeerBitfield(w)
    \/ \E w \in Peers : BitfieldJob(w)
    \/ \E w \in Peers : PeerUnchoke(w)
    \/ \E w \in Peers : PeerPiece(w)
    \/ \E w \in Peers : NextJob(w)

SpecTwoPeers == InitTwoPeers /\ [][NextTwoPeers]_vars /\ Fairness

\* The table of a torrent of one file of the given length, cut in pieces of
\* plen bytes.
TableOf(plen, total) ==
    [k \in 1..(total + plen - 1) \div plen |->
        NewPiece(k - 1, Min(plen, total - (k - 1) * plen),
                 Sha1(Content(k - 1, Min(plen, total - (k - 1) * plen))))]

\* download_from called with NumPieces pieces of a piece length of 48 KiB or
\* of 2 GiB, the last piece full or short.
InitFlush ==
    \E plen \in {NominalLen, FlushThreshold} :
    \E last \in {RemainderLen, plen}, bits \in [Peers -> Bitfields(NumPieces)] :
        InitDownload(TableOf(plen, (NumPieces - 1) * plen + last),
                     (NumPieces - 1) * plen + last, plen,
                     [i \in 1..NumPeers |-> i], bits)

\* download_from against peers that send whole pieces.
NextFlush ==
    \/ WorkerNewOk
    \/ WorkerNewFail
    \/ ManagerBitfield
    \/ ManagerPiece
    \/ ManagerDrain
    \/ ManagerJoin
    \/ \E w \in Peers : PeerBitfield(w)
    \/ \E w \in Peers : BitfieldJob(w)
    \/ \E w \in Peers : PeerUnchoke(w)
    \/ \E w \in Peers : PeerWholePiece(w)
    \/ \E w \in Peers : NextJob(w)

SpecFlush == InitFlush /\ [][NextFlush]_vars

\* download_from called with two peers and a table of four pieces: the second
\* peer is a seed, the first one has any subset of the pieces.
InitSeed ==
    \E S \in SUBSET (0..3) :
        InitWith([length |-> 3 * NominalLen + RemainderLen], <<1, 2>>,
                 [p \in Peers |-> IF p = 1 THEN <<ByteOf(S)>>
                                  ELSE IF p = 2 THEN <<ByteOf(0..3)>>
                                  ELSE <<0>>])

\* The four-piece download against peers that may break the protocol.
SpecSeed == InitSeed /\ [][Next]_vars

\* download_from called with RefillPieces pieces of 2 GiB each: the flush
\* threshold is passed at the second piece, and pieces arrive after it.
InitRefill ==
    \E bits \in [Peers -> Bitfields(RefillPieces)] :
        InitDownload(TableOf(FlushThreshold, RefillPieces * FlushThreshold),
                     RefillPieces * FlushThreshold, FlushThreshold,
                     [i \in 1..NumPeers |-> i], bits)

SpecRefill == InitRefill /\ [][NextFlush]_vars

\* download_from called with one peer, which has the last piece only, and a
\* table of 2..MaxTablePieces pieces, the last one full or short.
InitLastPiece ==
    \E n \in 2..MaxTablePieces, last \in {RemainderLen, NominalLen}, p \in Peers :
        InitDownload(TableOf(NominalLen, (n - 1) * NominalLen + last),
                     (n - 1) * NominalLen + last, NominalLen, <<p>>,
                     [q \in Peers |-> IF q = p THEN <<ByteOf({n - 1})>>
                                      ELSE <<0>>])

\* The run of one peer whose handshake succeeds and which follows the
\* protocol, fairly scheduled.
SpecLastPiece == InitLastPiece /\ [][NextTwoPeers]_vars /\ Fairness

\* The reading of the descriptor, for every buffer of Inputs.
NextRead ==
    \/ Decode
    \/ ReadDescriptor

SpecRead == InitRead /\ [][NextRead]_vars

\* The building of the piece table, for every info of TableInfos.
NextTable ==
    \/ BuildTable

SpecTable == InitTable /\ [][NextTable]_vars

\* -------------------------------------------------------------- properties

\* The piece of the table with the given index.
PieceOf(index) == pieces[FindPiece(pieces, index)]

\* The sends (worker, position in its log) of a JobMsg, for the given index
\* and for any index.
Handed(index) ==
    UNION {{<<w, n>> : n \in {m \in 1..Len(sent[w]) :
                                 /\ sent[w][m].type = "JobMsg"
                                 /\ sent[w][m].index = index}} : w \in Peers}

HandedAny ==
    UNION {{<<w, n>> : n \in {m \in 1..Len(sent[w]) :
                                 sent[w][m].type = "JobMsg"}} : w \in Peers}

\* The workers that hold a job for the given index: a JobMsg on their
\* channel, or a Job in their queue.
Holders(index) ==
    {w \in Peers :
        \/ \E n \in 1..Len(to_worker[w]) :
              /\ to_worker[w][n].type = "JobMsg"
              /\ to_worker[w][n].index = index
        \/ \E n \in 1..Len(job_queue[w]) : job_queue[w][n].index = index}

\* C1: at every instant at most one worker holds a job for a piece index and
\* no piece index has been handed (a JobMsg sent for it) to two workers; every
\* JobMsg sent has moved one Available piece out of Available, so the pieces
\* that are not Available are as many as the JobMsgs sent.
C1_Assignment ==
    /\ \A k \in 1..Len(pieces) :
          /\ Cardinality(Holders(pieces[k].index)) <= 1
          /\ Cardinality({h[1] : h \in Handed(pieces[k].index)}) <= 1
    /\ Cardinality({k \in 1..Len(pieces) : pieces[k].job_state /= "Available"})
          = Cardinality(HandedAny)

\* Worker w's peer has advertised (or will advertise) the piece index.
Owns(w, index) == index \in BitPositions(peer_bits[w])

\* The coordinator has sent Done to worker w.
DoneSentTo(w) == \E n \in 1..Len(sent[w]) : sent[w][n] = DoneMsg

\* Every piece of the torrent has an owner among the workers whose handshake
\* succeeded.
EveryPieceOwned ==
    \A index \in 0..NumDigests(total_length) - 1 :
        \E i \in 1..Len(workers) : Owns(workers[i], index)

\* The coordinator has left its event loop by the Done broadcast.
LoopLeft == mpc \in {"drain", "join", "returned"}

\* C2: when the event loop starts with every piece owned by some live worker
\* and the peers answer every request, fair scheduling leads to the
\* coordinator having sent Done to every live worker and having left its
\* event loop, whatever the assignment of owners to pieces.
C2_Termination ==
    (mpc = "loop" /\ EveryPieceOwned)
        ~> (LoopLeft /\ \A i \in 1..Len(workers) : DoneSentTo(workers[i]))

\* C3: a worker that is given the correct bytes of its piece verifies them,
\* also on the attempt that follows a failed verification: no worker is back
\* at downloaded_length = 0 with the complete correct bytes of its job as the
\* bytes its buffer received last.
C3_RetryVerifies ==
    \A w \in Peers :
        ~(/\ job_queue[w] /= <<>>
          /\ Head(job_queue[w]).downloaded_length = 0
          /\ Head(job_queue[w]).hash
                = Sha1(Content(Head(job_queue[w]).index, Head(job_queue[w]).length))
          /\ piece_buffer[w] /= <<>>
          /\ <<Last(piece_buffer[w])>>
                = Content(Head(job_queue[w]).index, Head(job_queue[w]).length))

\* The JobMsgs the coordinator has sent to worker w, in a log lg.
JobsSent(lg, w) == {n \in 1..Len(lg[w]) : lg[w][n].type = "JobMsg"}

\* C4: the step in which the bitfield counter reaches the number of workers,
\* with some piece owned by some peer, leaves the coordinator in its event
\* loop (it does not abort) with exactly one JobMsg sent to every worker.
C4_InitialDispatch ==
    [][(/\ mpc = "loop"
        /\ num_bitfields' = num_bitfields + 1
        /\ num_bitfields' = Len(workers)
        /\ \E k \in 1..Len(pieces') : pieces'[k].peers /= <<>>)
       => (/\ mpc' = "loop"
           /\ \A i \in 1..Len(workers) :
                 Cardinality(JobsSent(sent', workers[i])) = 1)]_vars

\* What the coordinator has sent worker w: the piece index of every JobMsg,
\* and -1 for Done.
Shape(w) ==
    [n \in 1..Len(sent[w]) |->
        IF sent[w][n].type = "JobMsg" THEN sent[w][n].index ELSE -1]

IsPrefix(s, t) == Len(s) <= Len(t) /\ SubSeq(t, 1, Len(s)) = s

\* C5: with four pieces, peer 1 owning {0, 1} and peer 2 owning {2, 3}, worker
\* 1 is sent piece 0, then piece 1, then Done, and worker 2 piece 2, then
\* piece 3, then Done, and nothing else; a worker's second job is sent only
\* after its first piece is Done, Done is sent to both together and only
\* after all four pieces are Done; and all of it is eventually sent.
C5_TwoPeers ==
    /\ [](/\ IsPrefix(Shape(1), <<0, 1, -1>>)
          /\ IsPrefix(Shape(2), <<2, 3, -1>>)
          /\ Len(sent[1]) >= 2 => PieceOf(0).job_state = "Done"
          /\ Len(sent[2]) >= 2 => PieceOf(2).job_state = "Done"
          /\ DoneSentTo(1) <=> DoneSentTo(2)
          /\ DoneSentTo(1) =>
                \A k \in 1..Len(pieces) : pieces[k].job_state = "Done")
    /\ <>(Shape(1) = <<0, 1, -1>> /\ Shape(2) = <<2, 3, -1>>)

\* download_from has returned after sending both workers both their pieces
\* and Done.
C5_Witness ==
    /\ mpc = "returned"
    /\ Shape(1) = <<0, 1, -1>>
    /\ Shape(2) = <<2, 3, -1>>

\* Every worker's bitfield has been forwarded and the coordinator has
\* processed every Bitfield event.
AllBitfieldsProcessed ==
    /\ mpc /= "spawn"
    /\ \A i \in 1..Len(workers) : bf_sent[workers[i]]
    /\ \A n \in 1..Len(from_worker) : from_worker[n].type /= "Bitfield"

\* The owners recorded for the piece at table position k.
Owners(k) == {pieces[k].peers[i] : i \in 1..Len(pieces[k].peers)}

\* C6: once all bitfield events have been processed, the owners recorded for
\* every piece of the table are exactly the workers whose bitfield has the bit
\* of the piece's index set, wherever the piece is in the table.
C6_Owners ==
    AllBitfieldsProcessed =>
        \A k \in 1..Len(pieces) :
            Owners(k) = {w \in Peers :
                            /\ \E i \in 1..Len(workers) : workers[i] = w
                            /\ Owns(w, pieces[k].index)}

\* The Piece events for the given index that wait in the coordinator's
\* channel, the entries of the flush buffer for it, and the writes made for it.
PieceEvents(index) ==
    {n \in 1..Len(from_worker) :
        from_worker[n].type = "Piece" /\ from_worker[n].index = index}

Buffered(index) == {n \in 1..Len(pieces_table) : pieces_table[n][1] = index}

Written(index) == {n \in 1..Len(file) : file[n].offset = index * piece_len}

\* C7: every piece index is appended to the flush buffer, and written, at most
\* once: its Piece events under way, its entries in the flush buffer and its
\* writes are at most one in all; and a Piece event under way is never for an
\* index whose piece is already Done.
C7_WriteOnce ==
    \A k \in 1..Len(pieces) :
        LET index == pieces[k].index IN
        /\ Cardinality(PieceEvents(index)) + Cardinality(Buffered(index))
              + Cardinality(Written(index)) <= 1
        /\ PieceEvents(index) /= {} => PieceOf(index).job_state /= "Done"

\* Worker w is one of download_from's workers.
IsWorker(w) == \E i \in 1..Len(workers) : workers[i] = w

\* The thread of worker w has died of a network error: a write to its
\* connection failed.
DiedOfNetwork(w) == IsWorker(w) /\ conn[w] = "down" /\ wpc[w] = "panicked"

\* C8: when a worker thread dies of a network error while it holds a job, the
\* coordinator neither aborts nor blocks for ever: it eventually sends Done to
\* the workers that live and leaves its event loop.
C8_Isolated ==
    (\E w \in Peers : DiedOfNetwork(w) /\ job_queue[w] /= <<>>)
        ~> (LoopLeft
            /\ \A v \in Peers : IsWorker(v) /\ ReceiverAlive(v) => DoneSentTo(v))

\* C9: a worker whose read of the peer connection has failed is out of its
\* message loop.
C9_ReadErrorDead ==
    \A w \in Peers : read_failed[w] => wpc[w] \in {"dead", "panicked"}

\* Worker w's connection failed, or its thread died, before it forwarded a
\* bitfield.
LostBeforeBitfield(w) ==
    IsWorker(w) /\ ~bf_sent[w] /\ (conn[w] = "down" \/ wpc[w] = "panicked")

\* C10: when a worker is lost before it forwarded its bitfield and the
\* bitfields of all the other workers have been processed, the coordinator
\* eventually makes the initial dispatch: it sends a JobMsg (or aborts in the
\* dispatch for want of a job).
C10_DeadBeforeBitfield ==
    (/\ mpc = "loop"
     /\ \E w \in Peers : LostBeforeBitfield(w)
     /\ \E v \in Peers : IsWorker(v) /\ ~LostBeforeBitfield(v)
     /\ \A v \in Peers : IsWorker(v) /\ ~LostBeforeBitfield(v) => bf_sent[v]
     /\ \A n \in 1..Len(from_worker) : from_worker[n].type /= "Bitfield")
        ~> (mpc = "panicked" \/ \E v \in Peers : sent[v] /= <<>>)


\* The elements of a sequence.
Range(f) == {f[x] : x \in DOMAIN f}

RECURSIVE Plain(_)
\* What a decoded value denotes: the value without the offsets and sizes the
\* decoder recorded for it and for the values inside it.
Plain(v) ==
    CASE v.kind = "Int" -> [kind |-> "Int", int |-> v.int]
      [] v.kind = "Str" -> [kind |-> "Str", byte_str |-> v.byte_str]
      [] v.kind = "List" ->
             [kind |-> "List",
              list |-> [n \in DOMAIN v.list |-> Plain(v.list[n])]]
      [] v.kind = "Dict" ->
             [kind |-> "Dict",
              dict |-> [k \in DOMAIN v.dict |-> Plain(v.dict[k])]]

RECURSIVE Nested(_)
\* The values stored inside a decoded value, at every depth.
Nested(v) ==
    CASE v.kind = "List" ->
             UNION {{c} \cup Nested(c) : c \in Range(v.list)}
      [] v.kind = "Dict" ->
             UNION {{c} \cup Nested(c) : c \in Range(v.dict)}
      [] OTHER -> {}

\* The range recorded for v holds exactly an encoding of the value v.
RecordsItsEncoding(original, v) ==
    LET again == decode(Recorded(original, v)) IN
    /\ Len(Recorded(original, v)) = v.size
    /\ again.tag = "ok"
    /\ again.val.size = v.size
    /\ Plain(again.val) = Plain(v)

\* C11: for every decoded value at any nesting depth, the recorded offset is
\* absolute: original[index..index + size] is exactly the encoding of that
\* value and decodes again to an equal value.
C11_AbsoluteOffsets ==
    decoded.tag = "ok" =>
        \A v \in {decoded.val} \cup Nested(decoded.val) :
            RecordsItsEncoding(input, v)

\* C12: the info-hash is the SHA-1 of exactly the d...e encoding of the info
\* value in the original buffer, the range the decoder recorded for it: the
\* digested bytes directly follow the key 4:info, decode to the info
\* dictionary and have no byte more.  For the input d4:infod1:xi1eee that
\* range is the 8 bytes d1:xi1ee at offsets 7..15.
C12_InfoHash ==
    /\ metainfo.tag = "ok" =>
           LET digested == metainfo.val.info.hash.digest_of
               info == decode(input).val.dict[Key("info")]
               again == decode(digested)
           IN  /\ again.tag = "ok"
               /\ again.val.size = Len(digested)
               /\ Plain(again.val) = Plain(info)
               /\ \E at \in 6..Len(input) - Len(digested) :
                      /\ SubSeq(input, at + 1, at + Len(digested)) = digested
                      /\ SubSeq(input, at - 5, at) =
                             <<"4", ":">> \o Key("info")
    /\ input = ExampleInfo /\ decoded.tag = "ok" =>
           LET info == decoded.val.dict[Key("info")] IN
           /\ info.index = 7
           /\ info.size = 8
           /\ Sha1(Recorded(input, info))
                  = Sha1(<<"d", "1", ":", "x", "i", "1", "e", "e">>)

\* A descriptor with a files list has been read and its info-hash computed.
C12_Witness ==
    /\ metainfo.tag = "ok"
    /\ metainfo.val.info.files.some
    /\ decoded.tag = "ok"

\* C12 as stated: for the input d4:infod1:xi1eee the range recorded for the
\* info value is the 10 bytes at offsets 7..17, and it holds d1:xi1ee.
C12_TenBytes ==
    input = ExampleInfo /\ decoded.tag = "ok" =>
        LET info == decoded.val.dict[Key("info")] IN
        /\ info.index = 7
        /\ info.size = 10
        /\ info.index + info.size = 17
        /\ Recorded(input, info) = <<"d", "1", ":", "x", "i", "1", "e", "e">>

\* C13: for every accepted descriptor, single-file and multi-file the same,
\* the piece table has ceil(total_length / piece_length) pieces with the
\* distinct indices 0..n-1, the lengths sum to total_length, and all but the
\* last piece have length piece_length.
C13_TableShape ==
    mpc = "table" =>
        LET n == Len(pieces) IN
        /\ n = (total_length + piece_len - 1) \div piece_len
        /\ {pieces[k].index : k \in 1..n} = 0..n - 1
        /\ Sum([k \in 1..n |-> pieces[k].length]) = total_length
        /\ \A k \in 1..n - 1 : pieces[k].length = piece_len

\* C14: every request a worker writes names the index of its current job,
\* begins at the bytes downloaded so far and asks for
\* min(piece length - downloaded, 16384) bytes (16 in the KiB of the model):
\* no request is longer than 16384 bytes and none is empty.
C14_Requests ==
    [][\A w \in Peers :
           /\ wire'[w] /= wire[w]
           /\ Len(wire'[w]) >= Len(wire[w])
           /\ IsRequest(Last(wire'[w]))
           => LET req == Last(wire'[w])
                  job == Head(job_queue'[w])
              IN  /\ req.index = job.index
                  /\ req.begin = job.downloaded_length
                  /\ req.length = Min(job.length - job.downloaded_length, 16)
                  /\ req.length > 0
                  /\ req.length <= 16]_vars

\* C15: decode accepts i<body>e exactly when body is 0, or an optional
\* single '-' followed by a non-empty digit string with no leading zero, and
\* then yields the number body denotes (0 for i0e); for every other body
\* without an 'e' (i-0e, i01e, a '+' sign, a lone '-', an empty body) it
\* returns an error.
C15_IntGrammar ==
    /\ decoded /= Unread
    /\ Len(input) >= 2
    /\ input[1] = "i"
    /\ Last(input) = "e"
    /\ \A n \in 2..Len(input) - 1 : input[n] /= "e"
    => LET body == SubSeq(input, 2, Len(input) - 1)
           negative == body /= <<>> /\ body[1] = "-"
           digits == IF negative THEN Tail(body) ELSE body
           valid == \/ body = <<"0">>
                    \/ /\ digits /= <<>>
                       /\ AllDigits(digits)
                       /\ digits[1] /= "0"
       IN  IF valid
           THEN /\ decoded.tag = "ok"
                /\ decoded.val.kind = "Int"
                /\ decoded.val.size = Len(input)
                /\ decoded.val.int = IF negative THEN 0 - Decimal(digits)
                                     ELSE Decimal(digits)
           ELSE decoded.tag = "err"

\* C16: decode accepts <len>:<bytes> only when <len> is a decimal number
\* without leading zeros (except the literal 0) and <len> bytes follow the
\* colon, and then yields those bytes and consumes the prefix, the colon and
\* them (2 bytes and the empty string for 0:); a length with a leading zero
\* (03:abc) or beyond the buffer is rejected with an error.
C16_StrGrammar ==
    /\ decoded /= Unread
    /\ input /= <<>>
    /\ is_ascii_digit(input[1])
    => LET colon == Least({n \in 1..Len(input) + 1 :
                              n > Len(input) \/ ~is_ascii_digit(input[n])})
           prefix == SubSeq(input, 1, colon - 1)
           len == Decimal(prefix)
           valid == /\ colon <= Len(input)
                    /\ input[colon] = ":"
                    /\ prefix = <<"0">> \/ prefix[1] /= "0"
                    /\ colon + len <= Len(input)
       IN  IF valid
           THEN /\ decoded.tag = "ok"
                /\ decoded.val.kind = "Str"
                /\ decoded.val.byte_str = SubSeq(input, colon + 1, colon + len)
                /\ decoded.val.size = colon + len
           ELSE decoded.tag = "err"

\* C17: for every input, decode returns the root value with the number of
\* bytes it consumed (4 for i42e, 11 for li1ei2ei3ee, 24 for
\* d3:cow3:moo4:spam4:eggse, 2 for le and de) or an error; it never panics.
C17_Total ==
    decoded /= Unread =>
        /\ decoded.tag \in {"ok", "err"}
        /\ decoded.tag = "ok" => decoded.val.size \in 1..Len(input)
        /\ input = ExampleInt => decoded.tag = "ok" /\ decoded.val.size = 4
        /\ input = ExampleList => decoded.tag = "ok" /\ decoded.val.size = 11
        /\ input = ExampleDict => decoded.tag = "ok" /\ decoded.val.size = 24
        /\ input \in {<<"l", "e">>, <<"d", "e">>} =>
               decoded.tag = "ok" /\ decoded.val.size = 2

\* C18: the descriptor reader reports an error when the info dictionary has
\* neither a length integer nor a files list: every descriptor it accepts
\* has at least one of length and files set.
C18_LengthOrFiles ==
    metainfo.tag = "ok" =>
        metainfo.val.info.length.some \/ metainfo.val.info.files.some

\* C19: when download_from returns and no storage operation failed (every
\* byte pushed to the flush buffer reached the file), every piece whose state
\* is Done has had its verified bytes written at the file offset
\* index * piece_length, by a threshold flush or by the final drain, and the
\* flush buffer holds nothing.
C19_Persisted ==
    /\ mpc = "returned"
    /\ Sum([i \in DOMAIN file |-> SumLen(file[i].buffer)]) = size
    => /\ pieces_table = <<>>
       /\ \A k \in DOMAIN pieces :
              pieces[k].job_state = "Done" =>
                  \E i \in DOMAIN file :
                      /\ file[i].offset = pieces[k].index * piece_len
                      /\ Sha1(file[i].buffer) = pieces[k].hash

\* download_from has returned after a threshold flush wrote every piece.
C19_Witness ==
    /\ mpc = "returned"
    /\ size > FlushThreshold
    /\ \A k \in DOMAIN pieces : pieces[k].job_state = "Done"
    /\ Len(file) = Len(pieces)
    /\ Sum([i \in DOMAIN file |-> SumLen(file[i].buffer)]) = size

\* C20: when a single peer owns only the last piece, the run completes: the
\* last piece is assigned and becomes Done, the worker receives Done and
\* download_from returns; the pieces without an owner are never assigned and
\* stay Available in every reachable state.
C20_LastPieceOnly ==
    /\ [](\A k \in DOMAIN pieces :
              pieces[k].index /= Len(pieces) - 1 =>
                  /\ pieces[k].job_state = "Available"
                  /\ Handed(pieces[k].index) = {}
                  /\ Holders(pieces[k].index) = {})
    /\ <>(/\ mpc = "returned"
          /\ \A w \in Range(workers) :
                 /\ Handed(Len(pieces) - 1) = {<<w, 1>>}
                 /\ DoneSentTo(w)
                 /\ wpc[w] = "dead"
          /\ \A k \in DOMAIN pieces :
                 pieces[k].index = Len(pieces) - 1 =>
                     pieces[k].job_state = "Done")

\* The run of the single peer has completed: its one piece is Done and in
\* the file, the others are Available.
C20_Witness ==
    /\ mpc = "returned"
    /\ Len(workers) = 1
    /\ Len(pieces) > 2
    /\ Len(file) = 1
    /\ \E k \in DOMAIN pieces : pieces[k].job_state = "Done"
    /\ \E k \in DOMAIN pieces : pieces[k].job_state = "Available"

\* C21: the step in which the last block of a job arrives and the digest of
\* the accumulated bytes differs from the job's hash (the job stays, with
\* downloaded_length 0) leaves the worker's buffer empty, keeps the same job
\* at the front of the queue, writes a request with begin 0 for the same
\* index and sends nothing to the coordinator.
C21_FailedVerification ==
    [][\A w \in Peers :
           /\ Reading(w)
           /\ wire[w] /= <<>> /\ IsRequest(Head(wire[w]))
           /\ job_queue[w] /= <<>>
           /\ Head(job_queue[w]).downloaded_length + Head(wire[w]).length
                  = Head(job_queue[w]).length
           /\ Len(wire'[w]) = Len(wire[w])
           /\ <<wire'[w], job_queue'[w], piece_buffer'[w]>>
                  /= <<wire[w], job_queue[w], piece_buffer[w]>>
           /\ wpc'[w] = "read"
           /\ job_queue'[w] /= <<>>
           /\ Head(job_queue'[w]).downloaded_length = 0
           => /\ piece_buffer'[w] = <<>>
              /\ job_queue'[w] =
                     [job_queue[w] EXCEPT ![1].downloaded_length = 0]
              /\ Last(wire'[w]) =
                     [id |-> 6, index |-> Head(job_queue[w]).index,
                      begin |-> 0, length |-> Last(wire'[w]).length]
              /\ from_worker' = from_worker]_vars

\* What C22 asks of one call give_out_job(ps, w): with no Available piece
\* that has w among its owners it returns false, sends nothing and changes
\* nothing; otherwise the piece it hands out was Available, has w among its
\* owners and has the fewest owners of all such pieces.
GivesRarest(ps, w) ==
    LET owned == {k \in 1..Len(ps) :
                     /\ ps[k].job_state = "Available"
                     /\ w \in Range(ps[k].peers)}
        r == give_out_job(ps, to_worker, sent, w)
    IN  IF owned = {}
        THEN /\ r.result = "none"
             /\ r.pieces = ps /\ r.to_worker = to_worker /\ r.sent = sent
        ELSE /\ r.result /= "none"
             /\ r.result = "sent" =>
                    \E k \in owned :
                        /\ r.pieces = [ps EXCEPT ![k].job_state = "Downloading"]
                        /\ r.sent[w] = Append(sent[w], JobMsg(ps[k]))
                        /\ \A m \in owned :
                               Cardinality(Range(ps[k].peers))
                                   <= Cardinality(Range(ps[m].peers))

\* C22: every call of give_out_job the coordinator makes, in the initial
\* dispatch (for each worker in turn, on the table the workers before it
\* left) and after a Piece event, assigns rarest first: the piece sent was
\* Available, is owned by the worker and has the minimum owner count among
\* the Available pieces the worker owns; it returns false, changing
\* nothing, exactly when the worker owns no Available piece.
C22_RarestFirst ==
    mpc = "loop" /\ from_worker /= <<>> =>
        LET msg == Head(from_worker) IN
        IF msg.type = "Piece"
        THEN FindPiece(pieces, msg.index) /= 0 =>
                 GivesRarest([pieces EXCEPT
                                  ![FindPiece(pieces, msg.index)].job_state =
                                      "Done"], msg.socket)
        ELSE /\ num_bitfields + 1 = Len(workers)
             /\ \A pos \in BitPositions(msg.bitfield) : pos < Len(pieces)
             => \A i \in 1..Len(workers) :
                    LET before ==
                            InitialDispatch(
                                SortPieces(PushPeers(pieces,
                                               BitPositions(msg.bitfield),
                                               msg.socket)),
                                to_worker, sent, SubSeq(workers, 1, i - 1))
                    IN  before.result = "sent" =>
                            GivesRarest(before.pieces, workers[i])

\* C23: a worker blocks in from_manager.recv() only with no unfinished job in
\* its queue (the queue is empty after its bitfield, and holds the job just
\* verified after a piece), and whenever it is back at the head of its message
\* loop its queue holds at most one job.
C23_CurrentJob ==
    \A w \in Peers :
        /\ wpc[w] \in {"await_bitfield_job", "await_next_job"} =>
               \A k \in 1..Len(job_queue[w]) :
                   job_queue[w][k].downloaded_length = job_queue[w][k].length
        /\ wpc[w] = "await_bitfield_job" => job_queue[w] = <<>>
        /\ wpc[w] = "read" => Len(job_queue[w]) <= 1

\* C24: the coordinator flushes at a Piece event exactly when the bytes held
\* in the flush buffer, the piece just pushed included, exceed the threshold;
\* a flush writes the held entries in index order and leaves the buffer empty,
\* and without a flush the buffer keeps every entry and nothing is written.
C24_FlushTrigger ==
    [][/\ mpc = "loop"
       /\ from_worker /= <<>>
       /\ Head(from_worker).type = "Piece"
       /\ from_worker' = Tail(from_worker)
       => LET pushed == Append(pieces_table,
                               <<Head(from_worker).index, Head(from_worker).buffer>>)
              held == Sum([n \in DOMAIN pushed |-> SumLen(pushed[n][2])])
          IN  IF held > FlushThreshold
              THEN /\ pieces_table' = <<>>
                   /\ \E k \in 0..Len(pushed) :
                          file' = file \o write_pieces_table_to_file(SortTable(pushed), k)
              ELSE /\ pieces_table' = pushed
                   /\ file' = file]_vars

\* The first request of worker w: begin 0 of the piece of its first job.
FirstRequest(w) ==
    [id |-> 6, index |-> sent[w][1].index, begin |-> 0,
     length |-> Min(sent[w][1].length, ReqCap)]

\* C25: a worker that waits for its first job has written nothing to its
\* peer; interested is written once the first job is in the queue, with no
\* request before it or along with it; the answer to interested is the
\* request with begin 0 for the piece of that job; and a worker that has
\* received its first job and written interested does send that request.
C25_FirstSteps ==
    /\ [][\A w \in Peers :
              /\ wpc[w] = "await_bitfield_job"
                    => wire[w] = <<>> /\ job_queue[w] = <<>>
              /\ (\E n \in DOMAIN wire[w] : wire[w][n] = Interested)
                    => /\ wire[w] = <<Interested>>
                       /\ bf_sent[w]
                       /\ sent[w] /= <<>> /\ sent[w][1].type = "JobMsg"
                       /\ job_queue[w] = <<NewJob(sent[w][1])>>
              /\ wire[w] = <<Interested>> /\ wire'[w] /= wire[w]
                    => wire'[w] = <<FirstRequest(w)>>]_vars
    /\ \A w \in Peers :
           (wire[w] = <<Interested>>)
               ~> (sent[w] /= <<>> /\ wire[w] = <<FirstRequest(w)>>)

\* A worker has sent the first request for its first job.
C25_Witness ==
    \E w \in Peers :
        /\ bf_sent[w]
        /\ Len(sent[w]) = 1
        /\ job_queue[w] = <<NewJob(sent[w][1])>>
        /\ wire[w] = <<FirstRequest(w)>>

\* The coordinator has sent Done to a worker.
DoneBroadcast == \E w \in Peers : \E m \in Range(sent[w]) : m.type = "Done"

\* C26: once Done has been sent, every worker of download_from has been found
\* out of work (workers_done counts them all, and none of them is listed on an
\* Available piece), every worker whose thread has not panicked was sent Done
\* exactly once, as the last message to it, no piece is Downloading and every
\* piece with an owner is Done.
C26_Shutdown ==
    DoneBroadcast =>
        /\ workers_done = Len(workers)
        /\ \A i \in 1..Len(workers) :
               /\ \A k \in 1..Len(pieces) :
                      workers[i] \in Range(pieces[k].peers)
                          => pieces[k].job_state /= "Available"
               /\ wpc[workers[i]] /= "panicked" =>
                      /\ Cardinality({n \in 1..Len(sent[workers[i]]) :
                                         sent[workers[i]][n].type = "Done"}) = 1
                      /\ Last(sent[workers[i]]).type = "Done"
        /\ \A w \in Peers :
               \A n \in 1..Len(sent[w]) :
                   sent[w][n].type = "Done" => n = Len(sent[w]) /\ IsWorker(w)
        /\ \A k \in 1..Len(pieces) :
               /\ pieces[k].job_state /= "Downloading"
               /\ pieces[k].peers /= <<>> => pieces[k].job_state = "Done"

\* C27: a worker sends a Piece event only from its message loop, for the job
\* at the front of its queue, with a buffer whose digest is the job's hash and
\* whose size is the job's length, and then waits with an empty buffer; it
\* leaves that wait for the message loop only by taking a JobMsg, which
\* replaces the job forwarded, so that no job is forwarded twice and the next
\* job starts on an empty buffer.
C27_VerifiedForwarding ==
    [][\A w \in Peers :
           /\ /\ Len(from_worker') = Len(from_worker) + 1
              /\ Last(from_worker').type = "Piece"
              /\ Last(from_worker').socket = w
              => /\ wpc[w] = "read"
                 /\ job_queue[w] /= <<>>
                 /\ Last(from_worker').index = Head(job_queue[w]).index
                 /\ Sha1(Last(from_worker').buffer) = Head(job_queue[w]).hash
                 /\ SumLen(Last(from_worker').buffer) = Head(job_queue[w]).length
                 /\ piece_buffer'[w] = <<>>
                 /\ wpc'[w] = "await_next_job"
           /\ wpc[w] = "await_next_job" /\ wpc'[w] = "read"
              => /\ to_worker[w] /= <<>>
                 /\ Head(to_worker[w]).type = "JobMsg"
                 /\ to_worker'[w] = Tail(to_worker[w])
                 /\ job_queue'[w] = <<NewJob(Head(to_worker[w]))>>
                 /\ piece_buffer'[w] = <<>>]_vars

\* A worker that has forwarded a piece has taken its next job.
C27_Witness ==
    \E w \in Peers :
        /\ wpc[w] = "read"
        /\ Len(sent[w]) = 2
        /\ to_worker[w] = <<>>
        /\ job_queue[w] = <<NewJob(sent[w][2])>>
        /\ piece_buffer[w] = <<>>
        /\ pieces[FindPiece(pieces, sent[w][1].index)].job_state = "Done"

\* C28: of the requests a worker has written, at most one is without its
\* block: the bytes written to the peer and not yet answered hold at most one
\* request.
C28_SingleRequest ==
    \A w \in Peers :
        Cardinality({n \in DOMAIN wire[w] : IsRequest(wire[w][n])}) <= 1

\* C29: the progress counter of every job stays within 0..length, so that
\* length - downloaded_length does not underflow, and while a worker is in
\* its message loop with a job the size of its buffer is the job's
\* downloaded_length.
C29_ProgressBounds ==
    \A w \in Peers :
        /\ \A k \in DOMAIN job_queue[w] :
               /\ 0 <= job_queue[w][k].downloaded_length
               /\ job_queue[w][k].downloaded_length <= job_queue[w][k].length
        /\ wpc[w] = "read" /\ job_queue[w] /= <<>> =>
               SumLen(piece_buffer[w]) = Head(job_queue[w]).downloaded_length

\* C30: a Piece event whose flush fails leaves the coordinator running, and
\* no piece of the batch is lost: every entry the flush buffer held at the
\* event, the piece just pushed included, is either written to the file by
\* that event or still in the flush buffer for a later flush or the final
\* write.
C30_FailedBatchKept ==
    [][/\ mpc = "loop"
       /\ from_worker /= <<>>
       /\ Head(from_worker).type = "Piece"
       /\ from_worker' = Tail(from_worker)
       => LET pushed == Append(pieces_table,
                               <<Head(from_worker).index, Head(from_worker).buffer>>)
          IN  \A n \in DOMAIN pushed :
                  \/ \E i \in Len(file) + 1..Len(file') :
                         /\ file'[i].offset = pushed[n][1] * piece_len
                         /\ file'[i].buffer = pushed[n][2]
                  \/ \E m \in DOMAIN pieces_table' : pieces_table'[m] = pushed[n]]_vars

============================================================================
